---- MODULE Spec2Model ----
(***************************************************************************)
(* roblox-install: RobloxStudio::locate() and the accessors of the value   *)
(* it returns (src/lib.rs), on the three build targets the source          *)
(* distinguishes with #[cfg(target_os = ...)].                             *)
(*                                                                         *)
(* A path is the text the program holds: a sequence of text units.  A unit *)
(* is one character ("\\", "/", ":", ".", a letter) or one of the file     *)
(* names the source writes as a literal ("Plugins", "RobloxStudio.app"),   *)
(* which holds no separator, no colon and is not a dot name.  The          *)
(* operations of std::path the source calls (PathBuf::from, Path::parent,  *)
(* Path::join) work on that text the way the standard library does: the    *)
(* text is parsed into a prefix, a root and components each time an        *)
(* operation runs.                                                         *)
(***************************************************************************)
EXTENDS Integers, Sequences, FiniteSets, TLC

\* Longest text that follows a head in a ContentFolder value.
MaxTail == 8
\* Longest documents directory the host returns.
MaxDocLen == 4

None == [some |-> FALSE, v |-> <<>>]
Some(x) == [some |-> TRUE, v |-> x]

(***************************************************************************)
(* std::path, as far as lib.rs calls it.                                   *)
(***************************************************************************)

\* Single ASCII letters (a drive letter is one of them).
Letters == {"a", "C"}

IsSep(os, u) == IF os = "windows" THEN u \in {"\\", "/"} ELSE u = "/"

MAIN_SEP(os) == IF os = "windows" THEN "\\" ELSE "/"

\* Index of the first separator of s at or after i; Len(s) + 1 if none.
RECURSIVE position(_, _, _)
position(os, s, i) ==
  IF i > Len(s) THEN Len(s) + 1
  ELSE IF IsSep(os, s[i]) THEN i
  ELSE position(os, s, i + 1)

\* Index of the last separator of s in start+1 .. i; 0 if none.
RECURSIVE rposition(_, _, _, _)
rposition(os, s, start, i) ==
  IF i <= start THEN 0
  ELSE IF IsSep(os, s[i]) THEN i
  ELSE rposition(os, s, start, i - 1)

\* The Windows prefix of a path text: \\.\device, \\server\share or a drive
\* (verbatim prefixes start with \\?\ and "?" is in no text here).
parse_prefix(os, s) ==
  IF os # "windows" THEN [kind |-> "None", len |-> 0]
  ELSE IF Len(s) >= 2 /\ IsSep(os, s[1]) /\ IsSep(os, s[2])
  THEN IF Len(s) >= 4 /\ s[3] = "." /\ IsSep(os, s[4])
       THEN [kind |-> "DeviceNS", len |-> position(os, s, 5) - 1]
       ELSE LET e1 == position(os, s, 3)
                e2 == position(os, s, e1 + 1)
            IN IF e1 - 3 > 0 /\ e2 - e1 - 1 > 0
               THEN [kind |-> "UNC", len |-> e2 - 1]
               ELSE [kind |-> "None", len |-> 0]
  ELSE IF Len(s) >= 2 /\ s[1] \in Letters /\ s[2] = ":"
  THEN [kind |-> "Disk", len |-> 2]
  ELSE [kind |-> "None", len |-> 0]

has_implicit_root(prefix) == prefix.kind \in {"UNC", "DeviceNS"}

\* Path::components(): the iterator over the text, with the fields it stores.
components(os, s) ==
  LET prefix == parse_prefix(os, s)
  IN [path |-> s,
      prefix |-> prefix,
      has_physical_root |-> Len(s) > prefix.len /\ IsSep(os, s[prefix.len + 1])]

has_root(c) == c.has_physical_root \/ has_implicit_root(c.prefix)

\* A leading "." is a component of its own only in a path with no root.
include_cur_dir(os, c) ==
  /\ ~has_root(c)
  /\ LET r == c.prefix.len
     IN \/ Len(c.path) = r + 1 /\ c.path[r + 1] = "."
        \/ Len(c.path) >= r + 2 /\ c.path[r + 1] = "." /\ IsSep(os, c.path[r + 2])

len_before_body(os, c) ==
  c.prefix.len + (IF c.has_physical_root THEN 1 ELSE 0)
               + (IF include_cur_dir(os, c) THEN 1 ELSE 0)

\* "" and "." are no components of a body; ".." is ParentDir.
parse_single_component(comp) ==
  IF comp = <<>> \/ comp = <<".">> THEN None
  ELSE IF comp = <<".", ".">> THEN Some([kind |-> "ParentDir", text |-> comp])
  ELSE Some([kind |-> "Normal", text |-> comp])

parse_next_component_back(os, c) ==
  LET start == len_before_body(os, c)
      i == rposition(os, c.path, start, Len(c.path))
      comp == SubSeq(c.path, (IF i = 0 THEN start ELSE i) + 1, Len(c.path))
  IN [size |-> Len(comp) + (IF i = 0 THEN 0 ELSE 1),
      comp |-> parse_single_component(comp)]

DropBack(c, n) == [c EXCEPT !.path = SubSeq(c.path, 1, Len(c.path) - n)]

\* Components::next_back(): the last component, what is left of the
\* iterator, and whether the iterator is still in the body.
RECURSIVE next_back(_, _)
next_back(os, c) ==
  IF Len(c.path) > len_before_body(os, c)
  THEN LET r == parse_next_component_back(os, c)
       IN IF r.comp.some
          THEN [kind |-> r.comp.v.kind, rest |-> DropBack(c, r.size), body |-> TRUE]
          ELSE next_back(os, DropBack(c, r.size))
  ELSE IF c.has_physical_root
  THEN [kind |-> "RootDir", rest |-> DropBack(c, 1), body |-> FALSE]
  ELSE IF c.prefix.len > 0
  THEN [kind |-> IF has_implicit_root(c.prefix) THEN "RootDir" ELSE "Prefix",
        rest |-> c, body |-> FALSE]
  ELSE IF include_cur_dir(os, c)
  THEN [kind |-> "CurDir", rest |-> DropBack(c, 1), body |-> FALSE]
  ELSE [kind |-> "End", rest |-> c, body |-> FALSE]

\* Components::trim_right(): drop the trailing text that is no component.
RECURSIVE trim_right(_, _)
trim_right(os, c) ==
  IF Len(c.path) > len_before_body(os, c)
  THEN LET r == parse_next_component_back(os, c)
       IN IF r.comp.some THEN c ELSE trim_right(os, DropBack(c, r.size))
  ELSE c

\* Path::parent(): the text without its last component, None when the text
\* ends in a root or a prefix or is empty.
parent(os, s) ==
  LET last == next_back(os, components(os, s))
  IN IF last.kind \in {"Normal", "CurDir", "ParentDir"}
     THEN Some(IF last.body THEN trim_right(os, last.rest).path ELSE last.rest.path)
     ELSE None

\* Path::join(name) for a relative name: PathBuf::push adds a separator
\* unless the text is empty, ends in one, or is a bare drive prefix.
join(os, s, name) ==
  LET c == components(os, s)
      need_sep == /\ Len(s) > 0
                  /\ ~IsSep(os, s[Len(s)])
                  /\ ~(c.prefix.kind = "Disk" /\ c.prefix.len = Len(s))
  IN s \o (IF need_sep THEN <<MAIN_SEP(os)>> ELSE <<>>) \o name

PathBuf_from(s) == s

RECURSIVE body_components(_, _, _)
body_components(os, s, i) ==
  IF i > Len(s) THEN <<>>
  ELSE LET e == position(os, s, i)
           comp == parse_single_component(SubSeq(s, i, e - 1))
       IN (IF comp.some THEN <<comp.v>> ELSE <<>>) \o body_components(os, s, e + 1)

\* The components of a path, front to back: what Path's == and starts_with
\* compare.
collect(os, s) ==
  LET c == components(os, s)
      pl == c.prefix.len
      pre == IF pl > 0 THEN <<[kind |-> "Prefix", text |-> SubSeq(s, 1, pl)]>> ELSE <<>>
      root == c.has_physical_root \/ (pl > 0 /\ has_implicit_root(c.prefix))
      cur == ~c.has_physical_root /\ pl = 0 /\ include_cur_dir(os, c)
      start == IF root THEN <<[kind |-> "RootDir", text |-> <<>>]>>
               ELSE IF cur THEN <<[kind |-> "CurDir", text |-> <<>>]>>
               ELSE <<>>
      used == pl + (IF c.has_physical_root \/ cur THEN 1 ELSE 0)
  IN pre \o start \o body_components(os, s, used + 1)

is_absolute(os, s) ==
  LET c == components(os, s)
  IN IF os = "windows" THEN has_root(c) /\ c.prefix.len > 0 ELSE has_root(c)

starts_with(os, s, base) ==
  LET a == collect(os, s)
      b == collect(os, base)
  IN Len(b) <= Len(a) /\ SubSeq(a, 1, Len(b)) = b

(***************************************************************************)
(* The environment locate() reads, and what a caller observes of a call.   *)
(***************************************************************************)

VARIABLES
  target_os,      \* the build target: "windows", "macos" or "linux"
  reg_open,       \* OS status of opening HKCU\Software\Roblox\RobloxStudio
  reg_get,        \* OS status of reading its string value ContentFolder
  ContentFolder,  \* the text of that value, when it can be read
  documents,      \* what the host's documents-directory lookup returns
  result,         \* what the latest locate() returned, NoCall if the
                  \* environment changed since
  io,             \* the calls into the OS that call made, in order
  open_handles,   \* registry key handles open in the process
  repeated        \* the latest call followed another one with no change
                  \* of the environment in between

env == <<target_os, reg_open, reg_get, ContentFolder, documents>>
vars == <<target_os, reg_open, reg_get, ContentFolder, documents,
          result, io, open_handles, repeated>>

\* OS errors of RegOpenKeyEx: ERROR_FILE_NOT_FOUND, ERROR_ACCESS_DENIED.
OpenErrors == {2, 5}
\* OS errors of winreg's get_value::<String>: ERROR_FILE_NOT_FOUND,
\* ERROR_BAD_FILE_TYPE.
GetErrors == {2, 222}

TailUnits == {"\\", "a", "."}
\* How a ContentFolder value starts: nothing, a drive, a UNC share, a device.
Heads == { <<>>,
           <<"C", ":">>,
           <<"\\", "\\", "a", "\\", "a">>,
           <<"\\", "\\", ".", "\\", "a">> }

StringsOver(units, lo, hi) == UNION {[1..n -> units] : n \in lo..hi}

ContentFolderValues == {h \o t : h \in Heads, t \in StringsOver(TailUnits, 0, MaxTail)}

IsContentFolderValue(s) ==
  \E h \in Heads :
    /\ Len(h) <= Len(s)
    /\ Len(s) - Len(h) <= MaxTail
    /\ SubSeq(s, 1, Len(h)) = h
    /\ \A i \in Len(h) + 1 .. Len(s) : s[i] \in TailUnits

DocUnits == {"/", "a", "."}
DocumentsValues == StringsOver(DocUnits, 1, MaxDocLen)

NoCall ==
  [tag |-> "NoCall", application |-> <<>>, built_in_plugins |-> <<>>,
   plugins |-> <<>>, root |-> <<>>, os_error |-> 0]

\* The struct literal with two fields mixed up.
Ok_swapped(application, built_in_plugins, plugins, root) ==
  [tag |-> "Ok", application |-> built_in_plugins, built_in_plugins |-> application,
   plugins |-> plugins, root |-> root, os_error |-> 0]

\* Ok(RobloxStudio { application, built_in_plugins, plugins, root })
Ok(application, built_in_plugins, plugins, root) ==
  [tag |-> "Ok", application |-> application, built_in_plugins |-> built_in_plugins,
   plugins |-> plugins, root |-> root, os_error |-> 0]

\* map_err that builds a fresh io::Error instead of passing the OS error on.
Err_fresh(variant, e) ==
  [tag |-> variant, application |-> <<>>, built_in_plugins |-> <<>>,
   plugins |-> <<>>, root |-> <<>>, os_error |-> 0]

\* Err(Error::variant), with the io::Error a RegistryError wraps.
Err(variant, e) ==
  [tag |-> variant, application |-> <<>>, built_in_plugins |-> <<>>,
   plugins |-> <<>>, root |-> <<>>, os_error |-> e]

\* Error::source()
source(r) == IF r.tag = "RegistryError" THEN Some(r.os_error) ELSE None

\* hkcu.open_subkey(r"Software\Roblox\RobloxStudio")
open_subkey == reg_open

\* A read that keeps the root of an earlier successful call and serves it
\* as the value.
get_value_cached ==
  [err |-> reg_get,
   value |-> IF result.tag = "Ok" THEN result.root ELSE ContentFolder]

\* roblox_studio_reg.get_value("ContentFolder")
get_value == [err |-> reg_get, value |-> ContentFolder]

\* dirs::document_dir()
document_dir == documents

\* A handle that is closed by hand on the way to Ok only: every `?` leaks it.
Return_leaky(value, events, held) ==
  [result |-> value,
   io |-> events \o [i \in 1..(IF value.tag = "Ok" THEN held ELSE 0) |->
                       <<"drop RegKey", 0>>]]

\* Leaving locate(): the value goes to the caller and the locals are
\* dropped; dropping the RegKey of an opened subkey closes its handle.
Return(value, events, held) ==
  [result |-> value,
   io |-> events \o [i \in 1..held |-> <<"drop RegKey", 0>>]]

Opened(events) == Cardinality({i \in DOMAIN events : events[i] = <<"open_subkey", 0>>})
Closed(events) == Cardinality({i \in DOMAIN events : events[i][1] = "drop RegKey"})

\* locate() with one .parent() too few on the way to plugins.
locate_windows_shallow ==
  LET status == open_subkey
      io1 == << <<"open_subkey", status>> >>
  IN IF status # 0 THEN Return(Err("RegistryError", status), io1, 0)
     ELSE
     LET content_folder_value == get_value
         io2 == Append(io1, <<"get_value", content_folder_value.err>>)
     IN IF content_folder_value.err # 0
        THEN Return(Err("RegistryError", content_folder_value.err), io2, 1)
        ELSE
        LET content_folder_path == PathBuf_from(content_folder_value.value)
            root == parent("windows", content_folder_path)
        IN IF ~root.some THEN Return(Err("MalformedRegistry", 0), io2, 1)
           ELSE
           LET up1 == parent("windows", root.v)
           IN IF ~up1.some THEN Return(Err("MalformedRegistry", 0), io2, 1)
              ELSE
              LET plugins == join("windows", up1.v, <<"Plugins">>)
              IN Return(Ok(join("windows", root.v, <<"RobloxStudioBeta.exe">>),
                           join("windows", root.v, <<"BuiltInPlugins">>),
                           plugins,
                           root.v),
                        io2, 1)

\* #[cfg(target_os = "windows")] locate()
locate_windows ==
  LET status == open_subkey
      io1 == << <<"open_subkey", status>> >>
  IN IF status # 0 THEN Return(Err("RegistryError", status), io1, 0)
     ELSE
     LET content_folder_value == get_value
         io2 == Append(io1, <<"get_value", content_folder_value.err>>)
     IN IF content_folder_value.err # 0
        THEN Return(Err("RegistryError", content_folder_value.err), io2, 1)
        ELSE
        LET content_folder_path == PathBuf_from(content_folder_value.value)
            root == parent("windows", content_folder_path)
        IN IF ~root.some THEN Return(Err("MalformedRegistry", 0), io2, 1)
           ELSE
           LET up1 == parent("windows", root.v)
           IN IF ~up1.some THEN Return(Err("MalformedRegistry", 0), io2, 1)
              ELSE
              LET up2 == parent("windows", up1.v)
              IN IF ~up2.some THEN Return(Err("MalformedRegistry", 0), io2, 1)
                 ELSE
                 LET plugins == join("windows", up2.v, <<"Plugins">>)
                 IN Return(Ok(join("windows", root.v, <<"RobloxStudioBeta.exe">>),
                              join("windows", root.v, <<"BuiltInPlugins">>),
                              plugins,
                              root.v),
                           io2, 1)

\* The struct literal at lines 95-100 initialises the field `application`
\* from a local of that name; the function binds the executable's path to
\* `exe` and binds no `application`, so the field names no value.
Unresolved == <<"unresolved name: application">>

\* locate() with a default in place of the `?` on the documents lookup.
locate_macos_defaulting ==
  LET root == join("macos", PathBuf_from(<<"/", "Applications">>), <<"RobloxStudio.app">>)
      contents == join("macos", root, <<"Contents">>)
      built_in_plugins ==
        join("macos", join("macos", contents, <<"Resources">>), <<"BuiltInPlugins">>)
      documents_ == document_dir
      io1 == << <<"document_dir", IF documents_.some THEN 0 ELSE 1>> >>
      plugins == join("macos", join("macos", documents_.v, <<"Roblox">>), <<"Plugins">>)
  IN Return(Ok(Unresolved, built_in_plugins, plugins, root), io1, 0)

\* #[cfg(target_os = "macos")] locate()
locate_macos ==
  LET root == join("macos", PathBuf_from(<<"/", "Applications">>), <<"RobloxStudio.app">>)
      contents == join("macos", root, <<"Contents">>)
      exe == join("macos", join("macos", contents, <<"MacOS">>), <<"RobloxStudio">>)
      built_in_plugins ==
        join("macos", join("macos", contents, <<"Resources">>), <<"BuiltInPlugins">>)
      documents_ == document_dir
      io1 == << <<"document_dir", IF documents_.some THEN 0 ELSE 1>> >>
  IN IF ~documents_.some THEN Return(Err("DocumentsDirectoryNotFound", 0), io1, 0)
     ELSE
     LET plugins == join("macos", join("macos", documents_.v, <<"Roblox">>), <<"Plugins">>)
     IN Return(Ok(Unresolved, built_in_plugins, plugins, root), io1, 0)

\* locate() that asks the host for the documents directory before it gives up.
locate_other_probing ==
  Return(Err("PlatformNotSupported", 0),
         << <<"document_dir", IF document_dir.some THEN 0 ELSE 1>> >>, 0)

\* #[cfg(not(any(target_os = "windows", target_os = "macos")))] locate()
locate_other == Return(Err("PlatformNotSupported", 0), <<>>, 0)

\* The accessors.
root_path(r) == r.root
application_path(r) == r.application
exe_path(r) == application_path(r)
built_in_plugins_path(r) == r.built_in_plugins
plugins_path(r) == r.plugins

Init ==
  /\ target_os \in {"windows", "macos", "linux"}
  /\ IF target_os = "windows"
     THEN /\ documents = None
          /\ \/ /\ reg_open = 0
                /\ reg_get = 0
                /\ ContentFolder \in ContentFolderValues
             \/ /\ reg_open \in {0} \cup OpenErrors
                /\ reg_get \in GetErrors
                /\ ContentFolder = <<>>
     ELSE /\ reg_open = 2
          /\ reg_get = 2
          /\ ContentFolder = <<>>
          /\ documents \in {None} \cup {Some(d) : d \in DocumentsValues}
  /\ result = NoCall
  /\ io = <<>>
  /\ open_handles = 0
  /\ repeated = FALSE

\* A call of locate(), observed by its caller.
Observe(r) ==
  /\ result' = r.result
  /\ io' = r.io
  /\ open_handles' = open_handles + Opened(r.io) - Closed(r.io)
  /\ repeated' = (result.tag # "NoCall")
  /\ UNCHANGED env

LocateWindows == target_os = "windows" /\ Observe(locate_windows)

LocateMacos == target_os = "macos" /\ Observe(locate_macos)

LocateOther == target_os = "linux" /\ Observe(locate_other)

\* The environment changed: the latest call is no longer of this environment.
Forget ==
  /\ result' = NoCall
  /\ io' = <<>>
  /\ repeated' = FALSE
  /\ UNCHANGED open_handles

\* Another program rewrites ContentFolder, one unit longer or shorter.
RegSetValue ==
  /\ target_os = "windows"
  /\ reg_open = 0
  /\ \E new \in {Append(ContentFolder, u) : u \in TailUnits}
               \cup {SubSeq(ContentFolder, 1, Len(ContentFolder) - 1)} :
       /\ new # ContentFolder
       /\ IsContentFolderValue(new)
       /\ ContentFolder' = new
  /\ reg_get' = 0
  /\ Forget
  /\ UNCHANGED <<target_os, reg_open, documents>>

\* ContentFolder is deleted, or rewritten as a value that is no string.
RegDeleteValue ==
  /\ target_os = "windows"
  /\ reg_open = 0
  /\ reg_get' \in GetErrors
  /\ ContentFolder' = <<>>
  /\ Forget
  /\ UNCHANGED <<target_os, reg_open, documents>>

\* The key is deleted or closed to this user; its values go out of reach.
RegDeleteKey ==
  /\ target_os = "windows"
  /\ reg_open' \in OpenErrors
  /\ reg_get' \in GetErrors
  /\ ContentFolder' = <<>>
  /\ Forget
  /\ UNCHANGED <<target_os, documents>>

\* The key is created, or opened to this user.
RegCreateKey ==
  /\ target_os = "windows"
  /\ reg_open # 0
  /\ reg_open' = 0
  /\ Forget
  /\ UNCHANGED <<target_os, reg_get, ContentFolder, documents>>

\* The user's documents directory moves, one unit longer or shorter, or
\* the host stops or starts knowing one.
SetDocuments ==
  /\ target_os # "windows"
  /\ \E new \in {None, Some(<<"/">>)}
               \cup {Some(Append(documents.v, u)) : u \in DocUnits}
               \cup {Some(SubSeq(documents.v, 1, Len(documents.v) - 1))} :
       /\ new # documents
       /\ new.some => new.v \in DocumentsValues
       /\ documents' = new
  /\ Forget
  /\ UNCHANGED <<target_os, reg_open, reg_get, ContentFolder>>

Next ==
  \/ LocateWindows
  \/ LocateMacos
  \/ LocateOther
  \/ RegSetValue
  \/ RegDeleteValue
  \/ RegDeleteKey
  \/ RegCreateKey
  \/ SetDocuments

Spec == Init /\ [][Next]_vars

(***************************************************************************)
(* The properties.                                                         *)
(***************************************************************************)

\* The path rules of the build target.
os == IF target_os = "windows" THEN "windows" ELSE "macos"

\* Path's ==: the same components.
PathEq(a, b) == collect(os, a) = collect(os, b)

Called == result.tag # "NoCall"

Readable == reg_open = 0 /\ reg_get = 0

NoPaths(r) ==
  r.application = <<>> /\ r.built_in_plugins = <<>> /\ r.plugins = <<>> /\ r.root = <<>>

\* C:\X\Y\Z\content, every name one letter long.
ExampleContentFolder == <<"C", ":", "\\", "a", "\\", "a", "\\", "a", "\\", "a">>

HasThreeAncestors(p) ==
  /\ parent("windows", p).some
  /\ parent("windows", parent("windows", p).v).some
  /\ parent("windows", parent("windows", parent("windows", p).v).v).some

GreatGrandparent(p) ==
  parent("windows", parent("windows", parent("windows", p).v).v).v

\* C1: on Windows, a call that read a ContentFolder value p with a parent, a
\* grandparent and a great-grandparent returned Ok with root = parent(p),
\* plugins = the great-grandparent joined with "Plugins", application =
\* root joined with "RobloxStudioBeta.exe" and built_in_plugins = root joined
\* with "BuiltInPlugins"; for C:\a\a\a\a these are C:\a\a\a, C:\a\Plugins,
\* C:\a\a\a\RobloxStudioBeta.exe and C:\a\a\a\BuiltInPlugins.
C1_WindowsDerivesFourPaths ==
  (target_os = "windows" /\ Called /\ Readable /\ HasThreeAncestors(ContentFolder)) =>
    /\ result.tag = "Ok"
    /\ PathEq(root_path(result), parent("windows", ContentFolder).v)
    /\ PathEq(plugins_path(result),
              join("windows", GreatGrandparent(ContentFolder), <<"Plugins">>))
    /\ PathEq(application_path(result),
              join("windows", root_path(result), <<"RobloxStudioBeta.exe">>))
    /\ PathEq(built_in_plugins_path(result),
              join("windows", root_path(result), <<"BuiltInPlugins">>))
    /\ ContentFolder = ExampleContentFolder =>
         /\ root_path(result) = <<"C", ":", "\\", "a", "\\", "a", "\\", "a">>
         /\ plugins_path(result) = <<"C", ":", "\\", "a", "\\", "Plugins">>
         /\ application_path(result) =
              <<"C", ":", "\\", "a", "\\", "a", "\\", "a", "\\", "RobloxStudioBeta.exe">>
         /\ built_in_plugins_path(result) =
              <<"C", ":", "\\", "a", "\\", "a", "\\", "a", "\\", "BuiltInPlugins">>

C1_Witness ==
  /\ target_os = "windows"
  /\ result.tag = "Ok"
  /\ ContentFolder = ExampleContentFolder

\* The components of p below its prefix and root.
ComponentsBelowRoot(p) ==
  LET c == collect("windows", p)
  IN Cardinality({i \in DOMAIN c : c[i].kind \notin {"Prefix", "RootDir"}})

\* C2: on Windows, a call that read a ContentFolder value with fewer than
\* three components below its prefix and root returned
\* Err(MalformedRegistry), with none of the four paths.
C2_ShallowValueIsMalformed ==
  (target_os = "windows" /\ Called /\ Readable /\ ComponentsBelowRoot(ContentFolder) < 3) =>
    result.tag = "MalformedRegistry" /\ NoPaths(result)

C2_Witness ==
  /\ target_os = "windows"
  /\ result.tag = "MalformedRegistry"
  /\ ContentFolder = <<"C", ":", "\\", "a", "\\", "a">>

AbsoluteNonEmpty(p) == Len(p) > 0 /\ is_absolute(os, p)

\* C3: every accessor of a value a successful locate() returned gives an
\* absolute, non-empty path.
C3_AccessorsAbsolute ==
  result.tag = "Ok" =>
    /\ AbsoluteNonEmpty(root_path(result))
    /\ AbsoluteNonEmpty(application_path(result))
    /\ AbsoluteNonEmpty(built_in_plugins_path(result))
    /\ AbsoluteNonEmpty(plugins_path(result))

MacRoot == <<"/", "Applications", "/", "RobloxStudio.app">>

\* C4: on macOS a successful locate() returned root =
\* /Applications/RobloxStudio.app, application =
\* root/Contents/MacOS/RobloxStudio, built_in_plugins =
\* root/Contents/Resources/BuiltInPlugins and plugins = the documents
\* directory joined with "Roblox" and "Plugins".
C4_MacosPaths ==
  (target_os = "macos" /\ result.tag = "Ok") =>
    /\ PathEq(root_path(result), MacRoot)
    /\ PathEq(application_path(result),
              MacRoot \o <<"/", "Contents", "/", "MacOS", "/", "RobloxStudio">>)
    /\ PathEq(built_in_plugins_path(result),
              MacRoot \o <<"/", "Contents", "/", "Resources", "/", "BuiltInPlugins">>)
    /\ documents.some
    /\ PathEq(plugins_path(result),
              join("macos", join("macos", documents.v, <<"Roblox">>), <<"Plugins">>))

\* C5: on macOS a call made while the documents lookup yields nothing
\* returned Err(DocumentsDirectoryNotFound) with none of the four paths,
\* and a call that did not return Ok returned that error, the lookup having
\* yielded nothing.
C5_MacosOnlyFailure ==
  (target_os = "macos" /\ Called) =>
    /\ ~documents.some => (result.tag = "DocumentsDirectoryNotFound" /\ NoPaths(result))
    /\ result.tag # "Ok" => (result.tag = "DocumentsDirectoryNotFound" /\ ~documents.some)

C5_Witness ==
  /\ target_os = "macos"
  /\ result.tag = "DocumentsDirectoryNotFound"
  /\ ~documents.some

StrictlyBeneath(p, base) ==
  starts_with(os, p, base) /\ Len(collect(os, p)) > Len(collect(os, base))

\* C6: in every value a successful locate() returned, application and
\* built_in_plugins lie strictly beneath root.
C6_BeneathRoot ==
  result.tag = "Ok" =>
    /\ StrictlyBeneath(application_path(result), root_path(result))
    /\ StrictlyBeneath(built_in_plugins_path(result), root_path(result))

C8_OtherPlatform ==
  (target_os = "linux" /\ Called) =>
    /\ result.tag = "PlatformNotSupported"
    /\ NoPaths(result)
    /\ io = <<>>

C8_Witness ==
  /\ target_os = "linux"
  /\ result.tag = "PlatformNotSupported"
  /\ documents.some

\* C9: no registry key handle a call of locate() opened is open after it:
\* each call closes as many handles as it opened, also when it returns
\* RegistryError from the read or MalformedRegistry.
C9_HandleReleased ==
  /\ open_handles = 0
  /\ Opened(io) = Closed(io)
  /\ (target_os = "windows" /\ Called /\ reg_open = 0) => Opened(io) = 1

C9_Witness ==
  /\ target_os = "windows"
  /\ result.tag = "MalformedRegistry"
  /\ Opened(io) = 1
  /\ open_handles = 0

Count(events, name) == Cardinality({i \in DOMAIN events : events[i][1] = name})

ErrorVariants ==
  {"DocumentsDirectoryNotFound", "MalformedRegistry", "PlatformNotSupported", "RegistryError"}

\* C10: on Windows a call made while the key does not open returned
\* RegistryError with the OS error of the open, after one open and no read;
\* a call made while the key opens and the value cannot be read returned
\* RegistryError with the OS error of the read, after one open and one read;
\* MalformedRegistry was returned only when both succeeded; and source() is
\* the wrapped OS error for RegistryError and nothing for the other variants.
C10_RegistryErrors ==
  /\ (target_os = "windows" /\ Called) =>
       /\ reg_open # 0 =>
            /\ result = Err("RegistryError", reg_open)
            /\ io = << <<"open_subkey", reg_open>> >>
       /\ (reg_open = 0 /\ reg_get # 0) =>
            /\ result = Err("RegistryError", reg_get)
            /\ Count(io, "open_subkey") = 1
            /\ Count(io, "get_value") = 1
            /\ io[1][1] = "open_subkey"
       /\ result.tag = "MalformedRegistry" => Readable
       /\ result.tag = "RegistryError" =>
            source(result) = Some(IF reg_open # 0 THEN reg_open ELSE reg_get)
  /\ \A v \in ErrorVariants, e \in OpenErrors \cup GetErrors :
       source(Err(v, e)).some <=> v = "RegistryError"

C10_Witness ==
  /\ target_os = "windows"
  /\ result.tag = "RegistryError"
  /\ reg_open = 5
  /\ reg_get = 222

====
